---- MODULE Spec2Model ----
(***************************************************************************)
(* Model of the weather aggregator service in src/weatherAPI.py.           *)
(*                                                                         *)
(* Numbers are fixed-point integers in thousandths (18.503 is 18503), so   *)
(* that Python's round(x, 2) and int(x) are real conversions.              *)
(* A JSON field a provider can omit or send as null is a record            *)
(* [st, v] with st in {"ok", "missing", "null"}.                           *)
(***************************************************************************)
EXTENDS Integers, Sequences, FiniteSets, Bags, TLC

VARIABLES
    \* ---- one aggregation (aggregated_*_from_providers and safe_request) ----
    kind,             \* "current" or "forecast": which aggregation runs
    cfg,              \* [ow, wa]: is OPENWEATHER_API_KEY / WEATHERAPI_KEY set
    days,             \* the days argument of the forecast aggregation
    pc,               \* position of the aggregation
    url,              \* the endpoint of the safe_request in flight, or ""
    attempt,          \* HTTP attempts made by the safe_request followed
    reqlog,           \* outcomes of those attempts, in order
    called,           \* requests made so far by the aggregation
    results,          \* local dict `results` of the current aggregation
    daily_aggregate,  \* local dict `daily_aggregate` of the forecast
    sources,          \* local dict `sources`
    location,         \* local variable `location` (Unbound until assigned)
    geo,              \* local `ge` of the forecast's OpenWeather block
    ret,              \* what the aggregation returned or raised
    \* ---- the service: request threads around the shared TTL cache ----
    cache,            \* the TTLCache: entries in least-recently-used order
    maxsize,          \* CACHE_MAXSIZE as read from the environment
    now,              \* the cache timer (seconds)
    th,               \* the requests being handled, one thread each (a bag)
    nextId            \* identity of the next answer object to be built

aggVars == <<kind, cfg, days, pc, url, attempt, reqlog, called, results,
             daily_aggregate, sources, location, geo, ret>>
svcVars == <<cache, maxsize, now, th, nextId>>
vars == <<kind, cfg, days, pc, url, attempt, reqlog, called, results,
          daily_aggregate, sources, location, geo, ret, cache, maxsize, now,
          th, nextId>>

(***************************************************************************)
(* Python values                                                           *)
(***************************************************************************)
Val(v) == [st |-> "ok", v |-> v]
Missing == [st |-> "missing", v |-> 0]
Null == [st |-> "null", v |-> 0]
ValS(s) == [st |-> "ok", v |-> s]
MissingS == [st |-> "missing", v |-> ""]
NullS == [st |-> "null", v |-> ""]
\* weather: [] in an OpenWeather payload
EmptyListS == [st |-> "emptylist", v |-> ""]

EmptyDict == [k \in {} |-> <<>>]

\* d.setdefault(k, v) as a statement: creates the key when absent
SetDefault(d, k, v) ==
    IF k \in DOMAIN d THEN d
    ELSE [x \in (DOMAIN d) \cup {k} |-> IF x = k THEN v ELSE d[x]]

\* d[k] = v
Put(d, k, v) == [x \in (DOMAIN d) \cup {k} |-> IF x = k THEN v ELSE d[x]]

\* d[k].append(x)
AppendTo(d, k, x) == [d EXCEPT ![k] = Append(@, x)]

RECURSIVE SumSeq(_)
SumSeq(s) == IF s = <<>> THEN 0 ELSE Head(s) + SumSeq(Tail(s))

\* round(num / den, 2) on thousandths: the nearest hundredth, a tie going to
\* the even hundredth (CPython resolves a decimal tie by the binary value of
\* the float; the inputs of this model produce no tie)
Round2(num, den) ==
    LET k == num \div (10 * den)
        r == num - k * 10 * den
    IN  IF 2 * r < 10 * den THEN k * 10
        ELSE IF 2 * r > 10 * den THEN (k + 1) * 10
        ELSE IF k % 2 = 0 THEN k * 10 ELSE (k + 1) * 10

\* int(num / den) on thousandths: truncation to a whole number
IntOf(num, den) == (num \div (1000 * den)) * 1000

\* max(conds, key=lambda x: conds.count(x)): the first element of the list
\* whose count is maximal
Count(s, x) == Cardinality({i \in DOMAIN s : s[i] = x})
MostCommon(s) ==
    LET best == CHOOSE i \in DOMAIN s :
                  /\ \A j \in DOMAIN s : Count(s, s[j]) <= Count(s, s[i])
                  /\ \A j \in DOMAIN s :
                        Count(s, s[j]) = Count(s, s[i]) => i <= j
    IN  s[best]

Unbound == [name |-> "<unbound>", lat |-> <<>>, lon |-> <<>>]

(***************************************************************************)
(* Provider payloads (the JSON a provider answers with)                    *)
(***************************************************************************)
\* OpenWeatherMap /data/2.5/weather
OWCurrentBodies ==
    [temp : {Missing, Val(20000)},
     feels : {Missing, Null, Val(19000)},
     hum : {Missing, Val(71000)},
     weather : {MissingS, EmptyListS, ValS("Clear"), ValS("Rain")},
     place : {"ok", "missing", "null"}]

\* WeatherAPI.com /v1/current.json
WACurrentBodies ==
    [temp : {Missing, Val(22000), Val(18503)},
     feels : {Missing, Null, Val(21000)},
     hum : {Missing, Val(72000)},
     cond : {MissingS, NullS, ValS("Clear"), ValS("Rain")},
     place : {"ok", "missing", "null"}]

\* a safe_request as its caller sees it: it raised, or it returned a body
Raised == [raised |-> TRUE, body |-> <<>>]
Returned(b) == [raised |-> FALSE, body |-> b]

\* the location record the OpenWeather current block builds (place is never
\* "null" here: a null sys or coord raises before the assignment)
OWLocation(place) ==
    IF place = "ok"
    THEN [name |-> "London, GB", lat |-> <<51510>>, lon |-> <<-130>>]
    ELSE [name |-> ", ", lat |-> <<>>, lon |-> <<>>]

\* the location record the WeatherAPI blocks build
WALocation(place) ==
    IF place = "ok"
    THEN [name |-> "London, United Kingdom", lat |-> <<51520>>, lon |-> <<-110>>]
    ELSE [name |-> ", ", lat |-> <<>>, lon |-> <<>>]

\* the locals of an aggregation before any provider ran
NoLocals ==
    [results |-> EmptyDict, daily_aggregate |-> EmptyDict,
     sources |-> EmptyDict, location |-> Unbound, geo |-> "none"]

(***************************************************************************)
(* aggregated_current_from_providers                                       *)
(***************************************************************************)
\* Provider A block: the statements run in order and the first one that
\* raises ends the block (except Exception); what ran before stays.
OpenWeatherCurrent(l, r) ==
    IF r.raised THEN l
    ELSE
    LET ow == r.body
        l1 == [l EXCEPT !.sources = Put(@, "openweathermap", ow),
                        !.results = SetDefault(@, "temps", <<>>)]
        l2 == [l1 EXCEPT !.results =
                  SetDefault(AppendTo(@, "temps", ow.temp.v), "feels", <<>>)]
        fl == IF ow.feels.st = "missing" THEN ow.temp ELSE ow.feels
        l3 == [l2 EXCEPT !.results =
                  SetDefault(AppendTo(@, "feels", fl.v), "humidities", <<>>)]
        l4 == [l3 EXCEPT !.results =
                  AppendTo(@, "humidities", IntOf(ow.hum.v, 1))]
        cond == IF ow.weather.st = "missing" THEN "" ELSE ow.weather.v
        l5 == [l4 EXCEPT !.results =
                  AppendTo(SetDefault(@, "conds", <<>>), "conds", cond)]
        l6 == [l5 EXCEPT !.location = OWLocation(ow.place)]
    IN  IF ow.temp.st # "ok" THEN l1
        ELSE IF fl.st # "ok" THEN l2
        ELSE IF ow.hum.st # "ok" THEN l3
        ELSE IF ow.weather.st = "emptylist" THEN l4
        ELSE IF ow.place = "null" THEN l5
        ELSE l6

\* Provider B block after its safe_request returned wa
WACurrentExtract(l, wa) ==
    LET l1 == [l EXCEPT !.sources = Put(@, "weatherapi", wa),
                        !.results = SetDefault(@, "temps", <<>>)]
        l2 == [l1 EXCEPT !.results =
                  SetDefault(AppendTo(@, "temps", wa.temp.v), "feels", <<>>)]
        fl == IF wa.feels.st = "missing" THEN wa.temp ELSE wa.feels
        l3 == [l2 EXCEPT !.results =
                  SetDefault(AppendTo(@, "feels", fl.v), "humidities", <<>>)]
        hm == IF wa.hum.st = "missing" THEN Val(0) ELSE wa.hum
        l4 == [l3 EXCEPT !.results =
                  SetDefault(AppendTo(@, "humidities", IntOf(hm.v, 1)),
                             "conds", <<>>)]
        cond == IF wa.cond.st = "missing" THEN "" ELSE wa.cond.v
        l5 == [l4 EXCEPT !.results = AppendTo(@, "conds", cond)]
        l6 == [l5 EXCEPT !.location = WALocation(wa.place)]
    IN  IF wa.temp.st # "ok" THEN l1
        ELSE IF fl.st # "ok" THEN l2
        ELSE IF hm.st # "ok" THEN l3
        ELSE IF wa.cond.st = "null" THEN l4
        ELSE IF wa.place = "null" THEN l5
        ELSE l6

\* Provider B block with an except clause that drops the values gathered
\* so far
WeatherAPICurrentResets(l, r) ==
    IF r.raised THEN [l EXCEPT !.results = EmptyDict]
    ELSE WACurrentExtract(l, r.body)

\* Provider B block
WeatherAPICurrent(l, r) ==
    IF r.raised THEN l ELSE WACurrentExtract(l, r.body)

\* mean(lst) then round(.., 2)
MeanRound2(lst) == Round2(SumSeq(lst), Len(lst))

\* mean(lst) then int(..)
MeanInt(lst) == IntOf(SumSeq(lst), Len(lst))

Raise(e) == [kind |-> e, value |-> <<>>]
Return(v) == [kind |-> "ok", value |-> v]

\* the statements after the provider blocks: the guard on `results`, the
\* aggregation of the four lists and the return
CurrentMerge(l) ==
    LET rs == l.results
    IN  IF DOMAIN rs = {} THEN Raise("RuntimeError")
        ELSE IF "temps" \notin DOMAIN rs THEN Raise("KeyError")
        ELSE IF rs["temps"] = <<>> THEN Raise("ZeroDivisionError")
        ELSE IF "feels" \notin DOMAIN rs THEN Raise("KeyError")
        ELSE IF rs["feels"] = <<>> THEN Raise("ZeroDivisionError")
        ELSE IF "humidities" \notin DOMAIN rs THEN Raise("KeyError")
        ELSE IF rs["humidities"] = <<>> THEN Raise("ZeroDivisionError")
        ELSE IF "conds" \notin DOMAIN rs THEN Raise("KeyError")
        ELSE IF l.location = Unbound THEN Raise("UnboundLocalError")
        ELSE Return([location |-> l.location,
                     temperature_c |-> MeanRound2(rs["temps"]),
                     feels_like_c |-> MeanRound2(rs["feels"]),
                     humidity |-> MeanInt(rs["humidities"]),
                     condition |-> IF rs["conds"] # <<>>
                                   THEN MostCommon(rs["conds"]) ELSE "",
                     sources |-> l.sources])

\* the whole function, given what each safe_request did
aggregated_current_from_providers(c, rOW, rWA) ==
    LET a == IF c.ow THEN OpenWeatherCurrent(NoLocals, rOW) ELSE NoLocals
        b == IF c.wa THEN WeatherAPICurrent(a, rWA) ELSE a
    IN  CurrentMerge(b)

(***************************************************************************)
(* aggregated_forecast_from_providers                                      *)
(***************************************************************************)
DEFAULT_FORECAST_DAYS == 3
MAX_FORECAST_DAYS == 7

\* longest day list a provider answers with
MaxProviderDays == 2

\* the city argument of the aggregation
QueryCity == "london"

SeqsUpTo(S, n) == UNION {[1..k -> S] : k \in 0..n}

\* Python's s[:n]
SliceTo(s, n) ==
    IF n >= 0 THEN SubSeq(s, 1, IF n < Len(s) THEN n ELSE Len(s))
    ELSE SubSeq(s, 1, IF Len(s) + n > 0 THEN Len(s) + n ELSE 0)

\* time.strftime("%Y-%m-%d", time.gmtime(dt)) as the number yyyymmdd, for
\* the timestamps of 26 to 30 September 2025
DateOf(dt) == 20250926 + (dt - 1758844800) \div 86400

\* a forecastday element of WeatherAPI.com /v1/forecast.json
WAGoodDay(d) ==
    [date |-> d, dayinfo |-> "ok", avg |-> Val(15000), min |-> Val(10000),
     max |-> Val(20000), cond |-> ValS("Rain")]
WAForecastDays ==
    {WAGoodDay(20250926), WAGoodDay(20250927),
     [WAGoodDay(20250926) EXCEPT !.avg = Missing, !.max = Missing,
                                 !.cond = MissingS],
     [WAGoodDay(20250927) EXCEPT !.cond = NullS],
     [WAGoodDay(20250926) EXCEPT !.dayinfo = "null"]}
\* a provider lists its days in ascending order, one record per date
WADayLists ==
    {ds \in SeqsUpTo(WAForecastDays, MaxProviderDays) :
        \A i, j \in DOMAIN ds : i < j => ds[i].date < ds[j].date}
WAForecastBodies ==
    [place : {"ok", "missing", "null"}, forecastday : WADayLists]

\* OpenWeather /geo/1.0/direct: [], [{lat, lon}] or an element without lat
GeocodeBodies == {"empty", "ok", "nolat"}

\* a daily element of OpenWeather /data/2.5/onecall
OWGoodDay(ts) ==
    [dt |-> ts, temp |-> "ok", day |-> Val(17503), min |-> Val(12004),
     max |-> Val(19000), weather |-> ValS("Clear")]
OWForecastDays ==
    {OWGoodDay(1758888000), OWGoodDay(1758974400), OWGoodDay(1759060800),
     [OWGoodDay(1758888000) EXCEPT !.day = Missing, !.min = Missing,
                                   !.weather = MissingS],
     [OWGoodDay(1759060800) EXCEPT !.weather = EmptyListS],
     [OWGoodDay(1758974400) EXCEPT !.temp = "null"]}
OWDayLists ==
    {ds \in SeqsUpTo(OWForecastDays, MaxProviderDays) :
        \A i, j \in DOMAIN ds : i < j => ds[i].dt < ds[j].dt}
OneCallBodies == [daily : OWDayLists]

NewDay == [temps |-> <<>>, mins |-> <<>>, maxs |-> <<>>, conds |-> <<>>]

\* one pass of the WeatherAPI loop body; ok = FALSE when it raised
WADayStep(da, day) ==
    LET d0 == SetDefault(da, day.date, NewDay)
        d1 == [d0 EXCEPT ![day.date].temps = Append(@, day.avg),
                         ![day.date].mins = Append(@, day.min),
                         ![day.date].maxs = Append(@, day.max)]
        cond == IF day.cond.st = "missing" THEN "" ELSE day.cond.v
        d2 == [d1 EXCEPT ![day.date].conds = Append(@, cond)]
    IN  IF day.dayinfo = "null" THEN [ok |-> FALSE, da |-> d0]
        ELSE IF day.cond.st = "null" THEN [ok |-> FALSE, da |-> d1]
        ELSE [ok |-> TRUE, da |-> d2]

RECURSIVE WADayLoop(_, _)
WADayLoop(da, ds) ==
    IF ds = <<>> THEN da
    ELSE LET s == WADayStep(da, Head(ds))
         IN  IF s.ok THEN WADayLoop(s.da, Tail(ds)) ELSE s.da

\* the WeatherAPI block of the forecast
WeatherAPIForecast(l, r) ==
    IF r.raised THEN l
    ELSE
    LET wa == r.body
        l1 == [l EXCEPT !.sources = Put(@, "weatherapi", wa)]
        l2 == [l1 EXCEPT !.location = WALocation(wa.place)]
    IN  IF wa.place = "null" THEN l1
        ELSE [l2 EXCEPT !.daily_aggregate = WADayLoop(@, wa.forecastday)]

\* the geocoding request of the OpenWeather block and the reading of ge[0]
OpenWeatherGeocode(l, r) ==
    IF r.raised THEN [l EXCEPT !.geo = "raised"] ELSE [l EXCEPT !.geo = r.body]

\* one pass of the OpenWeather loop body: new daily_aggregate and location
OWDayStep(st, day, city) ==
    LET date == DateOf(day.dt)
        d0 == SetDefault(st.da, date, NewDay)
        d1 == IF day.day.st = "ok"
              THEN [d0 EXCEPT ![date].temps = Append(@, day.day)] ELSE d0
        d2 == [d1 EXCEPT ![date].mins = Append(@, day.min),
                         ![date].maxs = Append(@, day.max)]
        cond == IF day.weather.st = "missing" THEN "" ELSE day.weather.v
        d3 == [d2 EXCEPT ![date].conds = Append(@, cond)]
    IN  IF day.temp = "null" THEN [ok |-> FALSE, da |-> d0, loc |-> st.loc]
        ELSE IF day.weather.st = "emptylist"
             THEN [ok |-> FALSE, da |-> d2, loc |-> st.loc]
        ELSE [ok |-> TRUE, da |-> d3,
              loc |-> [name |-> city, lat |-> <<51507>>, lon |-> <<-128>>]]

RECURSIVE OWDayLoop(_, _, _)
OWDayLoop(st, ds, city) ==
    IF ds = <<>> THEN st
    ELSE LET s == OWDayStep(st, Head(ds), city)
         IN  IF s.ok THEN OWDayLoop(s, Tail(ds), city) ELSE s

\* the One Call request of the OpenWeather block and the loop over its days
OpenWeatherOneCall(l, r, n, city) ==
    IF r.raised THEN l
    ELSE
    LET oc == r.body
        s == OWDayLoop([ok |-> TRUE, da |-> l.daily_aggregate,
                        loc |-> l.location], SliceTo(oc.daily, n), city)
    IN  [l EXCEPT !.sources = Put(@, "openweathermap", oc),
                  !.daily_aggregate = s.da,
                  !.location = s.loc]

\* sorted(daily_aggregate.items()): the dates in ascending order
RECURSIVE SortedDates(_)
SortedDates(S) ==
    IF S = {} THEN <<>>
    ELSE LET m == CHOOSE x \in S : \A y \in S : x <= y
         IN  <<m>> \o SortedDates(S \ {m})

\* [t for t in lst if t is not None]
NotNone(lst) ==
    LET idx == {i \in DOMAIN lst : lst[i].st = "ok"}
        RECURSIVE pick(_)
        pick(i) == IF i > Len(lst) THEN <<>>
                   ELSE IF i \in idx THEN <<lst[i].v>> \o pick(i + 1)
                   ELSE pick(i + 1)
    IN  pick(1)

MinOf(lst) == CHOOSE x \in {lst[i] : i \in DOMAIN lst} :
                  \A i \in DOMAIN lst : x <= lst[i]
MaxOf(lst) == CHOOSE x \in {lst[i] : i \in DOMAIN lst} :
                  \A i \in DOMAIN lst : x >= lst[i]

\* the loop body with min() where day_max needs max()
DaySummaryMinForMax(date, data) ==
    LET temps == NotNone(data.temps)
        mins == NotNone(data.mins)
        maxs == NotNone(data.maxs)
    IN  [date |-> date,
         min_c |-> IF mins # <<>> THEN <<Round2(MinOf(mins), 1)>> ELSE <<>>,
         max_c |-> IF maxs # <<>> THEN <<Round2(MinOf(maxs), 1)>> ELSE <<>>,
         avg_c |-> IF temps # <<>> THEN <<MeanRound2(temps)>> ELSE <<>>,
         condition |-> IF data.conds # <<>> THEN MostCommon(data.conds)
                       ELSE ""]

\* the body of the loop that builds `forecast`; None is <<>>
DaySummary(date, data) ==
    LET temps == NotNone(data.temps)
        mins == NotNone(data.mins)
        maxs == NotNone(data.maxs)
    IN  [date |-> date,
         min_c |-> IF mins # <<>> THEN <<Round2(MinOf(mins), 1)>> ELSE <<>>,
         max_c |-> IF maxs # <<>> THEN <<Round2(MaxOf(maxs), 1)>> ELSE <<>>,
         avg_c |-> IF temps # <<>> THEN <<MeanRound2(temps)>> ELSE <<>>,
         condition |-> IF data.conds # <<>> THEN MostCommon(data.conds)
                       ELSE ""]

\* the statements after the provider blocks
ForecastMerge(l, n) ==
    LET da == l.daily_aggregate
        dates == SliceTo(SortedDates(DOMAIN da), n)
    IN  IF DOMAIN da = {} THEN Raise("RuntimeError")
        ELSE IF l.location = Unbound THEN Raise("UnboundLocalError")
        ELSE Return([location |-> l.location,
                     forecast |-> [i \in DOMAIN dates |->
                                      DaySummary(dates[i], da[dates[i]])],
                     sources |-> l.sources])

\* days = min(days, MAX_FORECAST_DAYS)
ClampDays(d) == IF d < MAX_FORECAST_DAYS THEN d ELSE MAX_FORECAST_DAYS

\* the whole function, given what each safe_request did
aggregated_forecast_from_providers(c, city, d, rWA, rGeo, rOC) ==
    LET n == ClampDays(d)
        a == IF c.wa THEN WeatherAPIForecast(NoLocals, rWA) ELSE NoLocals
        g == IF c.ow THEN OpenWeatherGeocode(a, rGeo) ELSE a
        b == IF c.ow /\ g.geo = "ok"
             THEN OpenWeatherOneCall(g, rOC, n, city) ELSE g
    IN  ForecastMerge(b, n)

(***************************************************************************)
(* safe_request                                                            *)
(***************************************************************************)
\* the five requests the aggregations make, named by their position
Endpoints == {"cur_ow", "cur_wa", "fc_wa", "fc_geo", "fc_onecall"}

Bodies(u) ==
    CASE u = "cur_ow" -> OWCurrentBodies
      [] u = "cur_wa" -> WACurrentBodies
      [] u = "fc_wa" -> WAForecastBodies
      [] u = "fc_geo" -> GeocodeBodies
      [] u = "fc_onecall" -> OneCallBodies

\* what one HTTP attempt (requests.get, raise_for_status, resp.json) does:
\*   ok          a 2xx answer with a JSON body
\*   timeout     requests.Timeout or requests.ConnectionError
\*   http_5xx    requests.HTTPError from raise_for_status, server side
\*   http_4xx    requests.HTTPError from raise_for_status, client side
\*   bad_json    requests.JSONDecodeError from resp.json (requests >= 2.27)
\*   value_error the ValueError older versions of requests raise in resp.json
NetOutcomes ==
    {"ok", "timeout", "http_5xx", "http_4xx", "bad_json", "value_error"}

\* except requests.RequestException
IsRequestException(o) == o \in {"timeout", "http_5xx", "http_4xx", "bad_json"}

NoRet == [raised |-> FALSE, body |-> <<>>]

\* the try block: the first attempt
FirstAttempt ==
    /\ pc = "sr_first"
    /\ \E o \in NetOutcomes :
        /\ attempt' = 1
        /\ reqlog' = <<o>>
        /\ IF o = "ok"
           THEN \E b \in Bodies(url) : ret' = Returned(b) /\ pc' = "sr_done"
           ELSE IF IsRequestException(o)
           THEN ret' = ret /\ pc' = "sr_retry"
           ELSE ret' = Raised /\ pc' = "sr_done"
    /\ UNCHANGED <<kind, cfg, days, url, called, results, daily_aggregate,
                   sources, location, geo>>
    /\ UNCHANGED svcVars

\* the except block: the sleep and the one further attempt, whose failure
\* is re-raised
SecondAttempt ==
    /\ pc = "sr_retry"
    /\ \E o \in NetOutcomes :
        /\ attempt' = attempt + 1
        /\ reqlog' = Append(reqlog, o)
        /\ IF o = "ok"
           THEN \E b \in Bodies(url) : ret' = Returned(b)
           ELSE ret' = Raised
    /\ pc' = "sr_done"
    /\ UNCHANGED <<kind, cfg, days, url, called, results, daily_aggregate,
                   sources, location, geo>>
    /\ UNCHANGED svcVars

\* every way a safe_request can end for its caller
CallResults(u) == {Raised} \cup {Returned(b) : b \in Bodies(u)}

(***************************************************************************)
(* One aggregation, request by request                                     *)
(***************************************************************************)
Locals ==
    [results |-> results, daily_aggregate |-> daily_aggregate,
     sources |-> sources, location |-> location, geo |-> geo]

SetLocals(l) ==
    /\ results' = l.results
    /\ daily_aggregate' = l.daily_aggregate
    /\ sources' = l.sources
    /\ location' = l.location
    /\ geo' = l.geo

\* is the credential of the provider behind this request set
Configured(p) ==
    IF p \in {"cur_ow", "fc_geo", "fc_onecall"} THEN cfg.ow ELSE cfg.wa

\* the rest of the provider block once its safe_request ended with r
AfterCall(p, l, r) ==
    CASE p = "cur_ow" -> OpenWeatherCurrent(l, r)
      [] p = "cur_wa" -> WeatherAPICurrent(l, r)
      [] p = "fc_wa" -> WeatherAPIForecast(l, r)
      [] p = "fc_geo" -> OpenWeatherGeocode(l, r)
      [] p = "fc_onecall" ->
            OpenWeatherOneCall(l, r, ClampDays(days), QueryCity)

\* the aggregation leaves for the merge as soon as one provider gave values
NextPcFirstSuccess(p, l) ==
    CASE p = "cur_ow" ->
            IF l.results # EmptyDict THEN "cur_merge" ELSE "cur_wa"
      [] p = "cur_wa" -> "cur_merge"
      [] p = "fc_wa" ->
            IF l.daily_aggregate # EmptyDict THEN "fc_merge" ELSE "fc_geo"
      [] p = "fc_geo" -> IF l.geo = "ok" THEN "fc_onecall" ELSE "fc_merge"
      [] p = "fc_onecall" -> "fc_merge"

\* where the aggregation goes after the block at p
NextPc(p, l) ==
    CASE p = "cur_ow" -> "cur_wa"
      [] p = "cur_wa" -> "cur_merge"
      [] p = "fc_wa" -> "fc_geo"
      [] p = "fc_geo" -> IF l.geo = "ok" THEN "fc_onecall" ELSE "fc_merge"
      [] p = "fc_onecall" -> "fc_merge"

\* `if KEY:` is false: the block is skipped
SkipProvider ==
    /\ pc \in {"cur_ow", "cur_wa", "fc_wa", "fc_geo"}
    /\ url = ""
    /\ ~Configured(pc)
    /\ pc' = NextPc(pc, Locals)
    /\ UNCHANGED <<kind, cfg, days, url, attempt, reqlog, called, results,
                   daily_aggregate, sources, location, geo, ret>>
    /\ UNCHANGED svcVars

\* the `days` parameter of the request at p when the aggregation works
\* with a day count of n: only the WeatherAPI forecast request carries one
DaysParam(p, n) == IF p = "fc_wa" THEN <<n>> ELSE <<>>

\* the block calls safe_request
CallBegin ==
    /\ pc \in Endpoints
    /\ url = ""
    /\ Configured(pc)
    /\ url' = pc
    /\ called' = Append(called, [url |-> pc,
                                 days |-> DaysParam(pc, ClampDays(days))])
    /\ UNCHANGED <<kind, cfg, days, pc, attempt, reqlog, results,
                   daily_aggregate, sources, location, geo, ret>>
    /\ UNCHANGED svcVars

\* safe_request ends and the block runs on to its end or to its except
CallSettle ==
    /\ url # ""
    /\ pc = url
    /\ \E r \in CallResults(url) :
          LET l == AfterCall(pc, Locals, r)
          IN  SetLocals(l) /\ pc' = NextPc(pc, l)
    /\ url' = ""
    /\ UNCHANGED <<kind, cfg, days, attempt, reqlog, called, ret>>
    /\ UNCHANGED svcVars

\* the statements after the provider blocks
Merge ==
    /\ pc \in {"cur_merge", "fc_merge"}
    /\ ret' = IF pc = "cur_merge" THEN CurrentMerge(Locals)
              ELSE ForecastMerge(Locals, ClampDays(days))
    /\ pc' = "done"
    /\ UNCHANGED <<kind, cfg, days, url, attempt, reqlog, called, results,
                   daily_aggregate, sources, location, geo>>
    /\ UNCHANGED svcVars

(***************************************************************************)
(* The TTL cache (cache = TTLCache(maxsize, ttl)) and the @cached wrappers *)
(***************************************************************************)
CACHE_TTL_SECONDS == 300
CACHE_MAXSIZE == 1000

\* a cache small enough to fill (CACHE_MAXSIZE is read from the environment)
SmallCache == 1

\* position of key k in the cache, 0 when it has no entry
IndexOf(c, k) ==
    IF \E i \in DOMAIN c : c[i].key = k
    THEN CHOOSE i \in DOMAIN c : c[i].key = k ELSE 0

Without(c, i) == SubSeq(c, 1, i - 1) \o SubSeq(c, i + 1, Len(c))

\* TTLCache.__contains__: an entry past its expiry is absent
Contains(c, k, t) ==
    \E i \in DOMAIN c : c[i].key = k /\ t < c[i].expires

\* __getitem__ with the expiry test the wrong way round
TTLGetInverted(c, k, t) ==
    LET i == IndexOf(c, k)
    IN  IF i = 0 THEN [hit |-> FALSE, value |-> <<>>, cache |-> c]
        ELSE LET c1 == Append(Without(c, i), c[i])
             IN  IF c[i].expires < t
                 THEN [hit |-> TRUE, value |-> c[i].value, cache |-> c1]
                 ELSE [hit |-> FALSE, value |-> <<>>, cache |-> c1]

\* TTLCache.__getitem__: the entry becomes the most recently used one; an
\* expired entry is a miss even though it is still stored
TTLGet(c, k, t) ==
    LET i == IndexOf(c, k)
    IN  IF i = 0 THEN [hit |-> FALSE, value |-> <<>>, cache |-> c]
        ELSE LET c1 == Append(Without(c, i), c[i])
             IN  IF t < c[i].expires
                 THEN [hit |-> TRUE, value |-> c[i].value, cache |-> c1]
                 ELSE [hit |-> FALSE, value |-> <<>>, cache |-> c1]

\* TTLCache.expire(time)
Expire(c, t) == SelectSeq(c, LAMBDA e : t < e.expires)

\* __setitem__ with the lifetime counted from the start of the clock
TTLSetFromZero(c, k, v, t, ms) ==
    LET c1 == Expire(c, t)
        over == IF IndexOf(c1, k) = 0 /\ Len(c1) + 1 > ms
                THEN Len(c1) + 1 - ms ELSE 0
        c2 == SubSeq(c1, over + 1, Len(c1))
        i == IndexOf(c2, k)
        c3 == IF i = 0 THEN c2 ELSE Without(c2, i)
    IN  IF ms < 1 THEN c
        ELSE Append(c3, [key |-> k, value |-> v,
                         expires |-> CACHE_TTL_SECONDS])

\* TTLCache.__setitem__: expired entries go, then least recently used ones
\* until a new key fits, then the entry is (re)written with a fresh expiry
TTLSet(c, k, v, t, ms) ==
    LET c1 == Expire(c, t)
        over == IF IndexOf(c1, k) = 0 /\ Len(c1) + 1 > ms
                THEN Len(c1) + 1 - ms ELSE 0
        c2 == SubSeq(c1, over + 1, Len(c1))
        i == IndexOf(c2, k)
        c3 == IF i = 0 THEN c2 ELSE Without(c2, i)
    IN  IF ms < 1 THEN c
        ELSE Append(c3, [key |-> k, value |-> v,
                         expires |-> t + CACHE_TTL_SECONDS])

(***************************************************************************)
(* The routes /weather/current and /weather/forecast                       *)
(***************************************************************************)
\* request strings are sequences of characters
RECURSIVE LStrip(_)
LStrip(s) == IF s # <<>> /\ Head(s) = " " THEN LStrip(Tail(s)) ELSE s

RECURSIVE RStrip(_)
RStrip(s) ==
    IF s # <<>> /\ s[Len(s)] = " " THEN RStrip(SubSeq(s, 1, Len(s) - 1))
    ELSE s

\* a strip() that removes nothing
StripNothing(s) == s

\* str.strip()
Strip(s) == RStrip(LStrip(s))

Digits == <<"0", "1", "2", "3", "4", "5", "6", "7", "8", "9">>
IsDigit(ch) == \E i \in DOMAIN Digits : Digits[i] = ch
DigitVal(ch) == (CHOOSE i \in DOMAIN Digits : Digits[i] = ch) - 1

RECURSIVE DigitsVal(_, _)
DigitsVal(s, acc) ==
    IF s = <<>> THEN acc ELSE DigitsVal(Tail(s), 10 * acc + DigitVal(Head(s)))

\* int(text): surrounding blanks and one sign are accepted; anything else
\* raises ValueError
ParseInt(text) ==
    LET s == Strip(text)
        neg == s # <<>> /\ Head(s) = "-"
        body == IF s # <<>> /\ Head(s) \in {"-", "+"} THEN Tail(s) ELSE s
    IN  IF body = <<>> \/ \E i \in DOMAIN body : ~IsDigit(body[i])
        THEN [ok |-> FALSE, v |-> 0]
        ELSE [ok |-> TRUE,
              v |-> IF neg THEN 0 - DigitsVal(body, 0) ELSE DigitsVal(body, 0)]

\* the location parameters clients send to /weather/current
CurrentRequests ==
    {<<>>, <<" ">>, <<"l", "o">>, <<"L", "o">>, <<" ", "L", "o", " ">>}

\* the location and days parameters clients send to /weather/forecast;
\* a days of <<>> is the parameter left out
ForecastRequests ==
    {<<<<"l", "o">>, <<>>>>,
     <<<<"l", "o">>, <<"2">>>>,
     <<<<" ", "l", "o">>, <<" ", "2">>>>,
     <<<<"l", "o">>, <<"0">>>>,
     <<<<"l", "o">>, <<"8">>>>,
     <<<<"l", "o">>, <<"-", "1">>>>,
     <<<<"l", "o">>, <<"x">>>>,
     <<<<>>, <<"x">>>>,
     <<<<" ">>, <<"2">>>>}

\* requests handled at the same time (the server runs one thread each)
NThreads == 2

\* answers built before the model stops computing new ones
MaxAnswers == 2

\* the clock advances in steps of TickSeconds up to MaxClock
TickSeconds == 150
MaxClock == 300

\* an answer object: `id` tells the dict objects apart, `by` is the call of
\* the wrapped function that built it
NoAnswer == [id |-> 0, data |-> [none |-> TRUE],
             by |-> [route |-> "", args |-> <<>>]]

\* a request that was just accepted by a route
NewRequest ==
    [pc |-> "new", route |-> "", args |-> <<>>, key |-> <<>>,
     answer |-> NoAnswer, status |-> 0, computed |-> FALSE]

\* thread r moves on as r2
Becomes(r, r2) == th' = (th (-) SetToBag({r})) (+) SetToBag({r2})

\* what the except clauses of the two routes answer
StatusOf(r) ==
    IF r.kind = "ok" THEN 200
    ELSE IF r.kind = "RuntimeError" THEN 502
    ELSE 500

\* a key made of the first argument alone
HashKeyCityOnly(args) == <<args[1]>>

\* cachetools.keys.hashkey(*args)
HashKey(args) == args

\* the @cached wrapper up to its lookup, in a new thread
CachedLookup(route, args) ==
    LET k == HashKey(args)
        g == TTLGet(cache, k, now)
        r == IF g.hit
             THEN [pc |-> "done", route |-> route, args |-> args, key |-> k,
                   answer |-> g.value, status |-> 200, computed |-> FALSE]
             ELSE [pc |-> "computing", route |-> route, args |-> args,
                   key |-> k, answer |-> NoAnswer, status |-> 0,
                   computed |-> TRUE]
    IN  /\ cache' = g.cache
        /\ th' = th (+) SetToBag({r})

\* the route answers 400 before it reaches the cache
Reject(route) ==
    /\ th' = th (+) SetToBag({[NewRequest EXCEPT !.pc = "done",
                                                 !.route = route,
                                                 !.status = 400]})
    /\ cache' = cache

\* current_weather before its try block: the status it answers at once, or
\* the arguments it calls cached_current with
CurrentValidation(raw) ==
    LET loc == Strip(raw)
    IN  IF loc = <<>> THEN [status |-> 400, args |-> <<>>]
        ELSE [status |-> 0, args |-> <<loc>>]

\* current_weather, from the request to the cache lookup
CurrentRequest ==
    /\ BagCardinality(th) < NThreads
    /\ \E raw \in CurrentRequests :
          LET v == CurrentValidation(raw)
          IN  IF v.status = 400 THEN Reject("current")
              ELSE CachedLookup("current", v.args)
    /\ UNCHANGED <<maxsize, now, nextId>>
    /\ UNCHANGED aggVars

\* forecast_weather before its try block: the status it answers at once, or
\* the arguments it calls cached_forecast with
ForecastValidation(rq) ==
    LET loc == Strip(rq[1])
        rd == rq[2]
        d == IF rd = <<>> THEN [ok |-> TRUE, v |-> DEFAULT_FORECAST_DAYS]
             ELSE ParseInt(rd)
    IN  IF ~d.ok THEN [status |-> 400, args |-> <<>>]
        ELSE IF loc = <<>> THEN [status |-> 400, args |-> <<>>]
        ELSE IF d.v <= 0 \/ d.v > MAX_FORECAST_DAYS
             THEN [status |-> 400, args |-> <<>>]
        ELSE [status |-> 0, args |-> <<loc, d.v>>]

\* forecast_weather, from the request to the cache lookup
ForecastRequest ==
    /\ BagCardinality(th) < NThreads
    /\ \E rq \in ForecastRequests :
          LET v == ForecastValidation(rq)
          IN  IF v.status = 400 THEN Reject("forecast")
              ELSE CachedLookup("forecast", v.args)
    /\ UNCHANGED <<maxsize, now, nextId>>
    /\ UNCHANGED aggVars

\* what the providers answer to the aggregations the routes start
GoodOW == [temp |-> Val(20000), feels |-> Val(19000), hum |-> Val(71000),
           weather |-> ValS("Clear"), place |-> "ok"]
GoodWA == [temp |-> Val(22000), feels |-> Val(21000), hum |-> Val(72000),
           cond |-> ValS("Clear"), place |-> "ok"]
CurrentCalls ==
    {<<Returned(GoodOW), Returned(GoodWA)>>,
     <<Raised, Raised>>,
     <<Returned([GoodOW EXCEPT !.temp = Missing]), Raised>>}
ForecastCalls ==
    {<<Returned([place |-> "ok", forecastday |-> <<WAGoodDay(20250926)>>]),
       Returned("ok"), Returned([daily |-> <<OWGoodDay(1758888000)>>])>>,
     <<Raised, Raised, Raised>>}

\* the wrapped function runs: the aggregation and every provider request
\* it makes; an exception leaves the wrapper and is answered by the route
Compute ==
    /\ \E r \in BagToSet(th) :
        /\ r.pc = "computing"
        /\ \E cc \in CurrentCalls, fc \in ForecastCalls :
            LET a == IF r.route = "current"
                     THEN aggregated_current_from_providers(cfg, cc[1], cc[2])
                     ELSE aggregated_forecast_from_providers(
                              cfg, r.args[1], r.args[2], fc[1], fc[2], fc[3])
            IN  IF a.kind = "ok"
                THEN /\ nextId <= MaxAnswers
                     /\ Becomes(r, [r EXCEPT !.pc = "storing",
                                             !.answer =
                                                 [id |-> nextId,
                                                  data |-> a.value,
                                                  by |-> [route |-> r.route,
                                                          args |-> r.args]]])
                     /\ nextId' = nextId + 1
                ELSE /\ Becomes(r, [r EXCEPT !.pc = "done",
                                             !.status = StatusOf(a)])
                     /\ nextId' = nextId
    /\ UNCHANGED <<cache, maxsize, now>>
    /\ UNCHANGED aggVars

\* the wrapper stores the value and the route answers 200
Store ==
    /\ \E r \in BagToSet(th) :
        /\ r.pc = "storing"
        /\ cache' = TTLSet(cache, r.key, r.answer, now, maxsize)
        /\ Becomes(r, [r EXCEPT !.pc = "done", !.status = 200])
    /\ UNCHANGED <<maxsize, now, nextId>>
    /\ UNCHANGED aggVars

\* the response is sent and the thread ends
Respond ==
    /\ \E r \in BagToSet(th) :
        /\ r.pc = "done"
        /\ th' = th (-) SetToBag({r})
    /\ UNCHANGED <<cache, maxsize, now, nextId>>
    /\ UNCHANGED aggVars

\* time passes
Tick ==
    /\ now < MaxClock
    /\ now' = IF now + TickSeconds <= MaxClock THEN now + TickSeconds
              ELSE MaxClock
    /\ UNCHANGED <<cache, maxsize, th, nextId>>
    /\ UNCHANGED aggVars

(***************************************************************************)
(* Specifications                                                          *)
(***************************************************************************)
\* the day counts the forecast route lets through (1..MAX_FORECAST_DAYS)
DaysArgs == {1, 2, MAX_FORECAST_DAYS}

Running == [kind |-> "<running>", value |-> <<>>]

AggIdle ==
    /\ kind = "none"
    /\ cfg = [ow |-> TRUE, wa |-> TRUE]
    /\ days = DEFAULT_FORECAST_DAYS
    /\ pc = "idle"
    /\ url = ""
    /\ attempt = 0
    /\ reqlog = <<>>
    /\ called = <<>>
    /\ results = EmptyDict
    /\ daily_aggregate = EmptyDict
    /\ sources = EmptyDict
    /\ location = Unbound
    /\ geo = "none"
    /\ ret = Running

SvcIdle ==
    /\ cache = <<>>
    /\ maxsize = CACHE_MAXSIZE
    /\ now = 0
    /\ th = EmptyBag
    /\ nextId = 1

\* one call of aggregated_current_from_providers or
\* aggregated_forecast_from_providers, for every configuration of the keys
InitAgg ==
    /\ kind \in {"current", "forecast"}
    /\ cfg \in [ow : BOOLEAN, wa : BOOLEAN]
    /\ days \in (IF kind = "forecast" THEN DaysArgs
                 ELSE {DEFAULT_FORECAST_DAYS})
    /\ pc = (IF kind = "current" THEN "cur_ow" ELSE "fc_wa")
    /\ url = ""
    /\ attempt = 0
    /\ reqlog = <<>>
    /\ called = <<>>
    /\ results = EmptyDict
    /\ daily_aggregate = EmptyDict
    /\ sources = EmptyDict
    /\ location = Unbound
    /\ geo = "none"
    /\ ret = Running
    /\ SvcIdle

NextAgg == SkipProvider \/ CallBegin \/ CallSettle \/ Merge

SpecAgg == InitAgg /\ [][NextAgg]_vars

\* one call of safe_request, for each of the five endpoints
InitRetry ==
    /\ kind = "request"
    /\ cfg = [ow |-> TRUE, wa |-> TRUE]
    /\ days = DEFAULT_FORECAST_DAYS
    /\ pc = "sr_first"
    /\ url \in Endpoints
    /\ attempt = 0
    /\ reqlog = <<>>
    /\ called = <<>>
    /\ results = EmptyDict
    /\ daily_aggregate = EmptyDict
    /\ sources = EmptyDict
    /\ location = Unbound
    /\ geo = "none"
    /\ ret = NoRet
    /\ SvcIdle

\* the day counts a caller can hand to aggregated_forecast_from_providers
AnyDays == {-1, 0, 1, MAX_FORECAST_DAYS, MAX_FORECAST_DAYS + 1, 50}

\* one call of aggregated_forecast_from_providers with any integer day count
InitForecast ==
    /\ kind = "forecast"
    /\ cfg \in [ow : BOOLEAN, wa : BOOLEAN]
    /\ days \in AnyDays
    /\ pc = "fc_wa"
    /\ url = ""
    /\ attempt = 0
    /\ reqlog = <<>>
    /\ called = <<>>
    /\ results = EmptyDict
    /\ daily_aggregate = EmptyDict
    /\ sources = EmptyDict
    /\ location = Unbound
    /\ geo = "none"
    /\ ret = Running
    /\ SvcIdle

SpecForecast == InitForecast /\ [][NextAgg]_vars

NextRetry == FirstAttempt \/ SecondAttempt

SpecRetry == InitRetry /\ [][NextRetry]_vars

\* the service: request threads sharing the cache
Init ==
    /\ AggIdle
    /\ cache = <<>>
    /\ maxsize \in {SmallCache, CACHE_MAXSIZE}
    /\ now = 0
    /\ th = EmptyBag
    /\ nextId = 1

Next ==
    \/ CurrentRequest
    \/ ForecastRequest
    \/ Compute
    \/ Store
    \/ Respond
    \/ Tick

Spec == Init /\ [][Next]_vars

(***************************************************************************)
(* What the providers reported, read off the payloads in `sources`         *)
(***************************************************************************)
\* the providers in the order of their configuration (OPENWEATHER_API_KEY,
\* then WEATHERAPI_KEY), which is also the call order of the current block
ProviderOrder == <<"openweathermap", "weatherapi">>

Active(name) == IF name = "openweathermap" THEN cfg.ow ELSE cfg.wa
AnyActive == cfg.ow \/ cfg.wa

\* the provider's request returned a payload
Answered(name) == name \in DOMAIN sources

\* a current payload with every field the extraction needs
OWCurrentOK(b) ==
    /\ b.temp.st = "ok"
    /\ b.feels.st # "null"
    /\ b.hum.st = "ok"
    /\ b.weather.st # "emptylist"
    /\ b.place # "null"
WACurrentOK(b) ==
    /\ b.temp.st = "ok"
    /\ b.feels.st # "null"
    /\ b.hum.st # "null"
    /\ b.cond.st # "null"
    /\ b.place # "null"

CurSucceeded(name) ==
    /\ Answered(name)
    /\ IF name = "openweathermap" THEN OWCurrentOK(sources[name])
       ELSE WACurrentOK(sources[name])

\* name of the condition field in each provider's current payload
CondField(name) == IF name = "openweathermap" THEN "weather" ELSE "cond"

\* the values of one field reported by the providers that succeeded, in
\* ProviderOrder
CurReportedBy(name, field) ==
    IF CurSucceeded(name) /\ sources[name][field].st = "ok"
    THEN <<sources[name][field].v>> ELSE <<>>
CurReported(field) ==
    CurReportedBy(ProviderOrder[1], field) \o CurReportedBy(ProviderOrder[2], field)
CurReportedConds ==
    CurReportedBy(ProviderOrder[1], CondField(ProviderOrder[1]))
        \o CurReportedBy(ProviderOrder[2], CondField(ProviderOrder[2]))

\* the day records of a forecast payload that the aggregation is given
FcDays(name) ==
    IF ~Answered(name) THEN <<>>
    ELSE IF name = "weatherapi"
         THEN IF sources[name].place = "null" THEN <<>>
              ELSE sources[name].forecastday
    ELSE SliceTo(sources[name].daily, ClampDays(days))

\* a day record whose container object is there / that is complete
FcReadable(name, d) ==
    IF name = "weatherapi" THEN d.dayinfo # "null" ELSE d.temp # "null"
FcDayOK(name, d) ==
    IF name = "weatherapi" THEN d.dayinfo # "null" /\ d.cond.st # "null"
    ELSE d.temp # "null" /\ d.weather.st # "emptylist"

FcSucceeded(name) ==
    /\ Answered(name)
    /\ name = "weatherapi" => sources[name].place # "null"
    /\ FcDays(name) # <<>>
    /\ \A i \in DOMAIN FcDays(name) : FcDayOK(name, FcDays(name)[i])

\* the day records read by the aggregation: all of them, or those up to the
\* first incomplete one
FcReadDays(name) ==
    LET ds == FcDays(name)
        bad == {i \in DOMAIN ds : ~FcDayOK(name, ds[i])}
    IN  IF bad = {} THEN ds
        ELSE SubSeq(ds, 1, CHOOSE i \in bad : \A j \in bad : i <= j)

FcDate(name, d) == IF name = "weatherapi" THEN d.date ELSE DateOf(d.dt)
FcField(name, d, f) ==
    IF f = "cond" THEN (IF name = "weatherapi" THEN d.cond ELSE d.weather)
    ELSE IF f = "avg" THEN (IF name = "weatherapi" THEN d.avg ELSE d.day)
    ELSE IF f = "min" THEN d.min
    ELSE d.max

\* the values of field f that days ds of provider name carry for a date
FcValues(name, ds, date, f) ==
    LET sel == SelectSeq(ds, LAMBDA d :
                   /\ FcDate(name, d) = date
                   /\ FcReadable(name, d)
                   /\ FcField(name, d, f).st = "ok")
    IN  [i \in DOMAIN sel |-> FcField(name, sel[i], f).v]

\* the values read for a date and a field, from every provider that answered
FcRead(date, f) ==
    FcValues("weatherapi", FcReadDays("weatherapi"), date, f)
        \o FcValues("openweathermap", FcReadDays("openweathermap"), date, f)

\* the conditions the succeeded providers reported for a date, in
\* ProviderOrder
FcReportedCondsBy(name, date) ==
    IF FcSucceeded(name) THEN FcValues(name, FcDays(name), date, "cond")
    ELSE <<>>
FcReportedConds(date) ==
    FcReportedCondsBy(ProviderOrder[1], date)
        \o FcReportedCondsBy(ProviderOrder[2], date)

AnySucceeded ==
    IF kind = "current"
    THEN \E i \in DOMAIN ProviderOrder : CurSucceeded(ProviderOrder[i])
    ELSE \E i \in DOMAIN ProviderOrder : FcSucceeded(ProviderOrder[i])

Done == pc = "done"
DoneOk == pc = "done" /\ ret.kind = "ok"

(***************************************************************************)
(* Properties of the aggregations (SpecAgg)                                *)
(***************************************************************************)
\* C4: when every active provider fails, at whatever point, the aggregation
\* raises the all-providers-failed error and the route answers 502.
C4_TotalFailureIs502 ==
    (Done /\ AnyActive /\ ~AnySucceeded) =>
        (ret.kind = "RuntimeError" /\ StatusOf(ret) = 502)

C6_CurrentMeanOfSucceeded ==
    (DoneOk /\ kind = "current") =>
        /\ CurReported("temp") # <<>> =>
              ret.value.temperature_c = MeanRound2(CurReported("temp"))
        /\ CurReported("feels") # <<>> =>
              ret.value.feels_like_c = MeanRound2(CurReported("feels"))
        /\ CurReported("hum") # <<>> =>
              ret.value.humidity = MeanRound2(CurReported("hum"))

C8_ModeFirstConfiguredWins ==
    /\ (DoneOk /\ kind = "current" /\ CurReportedConds # <<>>) =>
          ret.value.condition = MostCommon(CurReportedConds)
    /\ (DoneOk /\ kind = "forecast") =>
          \A i \in DOMAIN ret.value.forecast :
              LET e == ret.value.forecast[i]
              IN  FcReportedConds(e.date) # <<>> =>
                      e.condition = MostCommon(FcReportedConds(e.date))

\* the location a provider that succeeded reported, <<>> when it is empty
CurLocationOf(name) ==
    IF CurSucceeded(name) /\ sources[name].place = "ok"
    THEN <<IF name = "openweathermap" THEN OWLocation("ok")
           ELSE WALocation("ok")>>
    ELSE <<>>
CurLocations ==
    CurLocationOf(ProviderOrder[1]) \o CurLocationOf(ProviderOrder[2])

FcLocationOf(name) ==
    IF ~FcSucceeded(name) THEN <<>>
    ELSE IF name = "openweathermap"
         THEN <<[name |-> QueryCity, lat |-> <<51507>>, lon |-> <<-128>>]>>
    ELSE IF sources[name].place = "ok" THEN <<WALocation("ok")>>
    ELSE <<>>
FcLocations ==
    FcLocationOf(ProviderOrder[1]) \o FcLocationOf(ProviderOrder[2])

\* C9: the location of the answer is that of the first provider in
\* ProviderOrder that succeeded with a non-empty location; a provider that
\* succeeds later does not replace it.
C9_FirstLocationWins ==
    /\ (DoneOk /\ kind = "current" /\ CurLocations # <<>>) =>
          ret.value.location = CurLocations[1]
    /\ (DoneOk /\ kind = "forecast" /\ FcLocations # <<>>) =>
          ret.value.location = FcLocations[1]

\* the day count of a request brought into lo..hi
Clamp(d, lo, hi) == IF d < lo THEN lo ELSE IF d > hi THEN hi ELSE d

\* C12: a forecast answer for a request of d days has exactly
\* clamp(d, 1, MAX_FORECAST_DAYS) day entries, however many distinct dates
\* the providers returned.
C12_ForecastLength ==
    (DoneOk /\ kind = "forecast") =>
        Len(ret.value.forecast) = Clamp(days, 1, MAX_FORECAST_DAYS)

\* what the aggregation at hand yields when both providers are configured
\* and every request to them raises
AllFailedOutcome ==
    IF kind = "current"
    THEN aggregated_current_from_providers([ow |-> TRUE, wa |-> TRUE],
                                           Raised, Raised)
    ELSE aggregated_forecast_from_providers([ow |-> TRUE, wa |-> TRUE],
                                            QueryCity, days,
                                            Raised, Raised, Raised)

\* C14: with no provider configured the aggregation fails, and its error
\* differs from the one it raises when configured providers all failed.
C14_NoProviderDistinct ==
    (Done /\ ~AnyActive) =>
        /\ ret.kind # "ok"
        /\ ret # AllFailedOutcome

\* the requests that need no other request's answer: one per provider
FirstRequests ==
    IF kind = "current" THEN {"cur_ow", "cur_wa"} ELSE {"fc_wa", "fc_geo"}

Dispatched(u) == \E i \in DOMAIN called : called[i].url = u

\* the request made first has ended
FirstSettled == Len(called) >= 2 \/ (Len(called) = 1 /\ url = "")

\* C17: the requests to the active providers are dispatched together, all
\* of them before the first one settles, and the merge starts only when no
\* request is in flight.
C17_ConcurrentFanOut ==
    /\ FirstSettled =>
          \A u \in FirstRequests : Configured(u) => Dispatched(u)
    /\ pc \in {"cur_merge", "fc_merge", "done"} => url = ""

\* the provider a request goes to
ProviderOf(u) ==
    IF u \in {"cur_ow", "fc_geo", "fc_onecall"} THEN "openweathermap"
    ELSE "weatherapi"

ConfiguredProviders ==
    {ProviderOrder[i] : i \in {j \in DOMAIN ProviderOrder :
                                  Active(ProviderOrder[j])}}
InvokedProviders == {ProviderOf(called[i].url) : i \in DOMAIN called}

\* C18: an aggregation never calls a provider that is not configured, makes
\* no request twice, and by its end has called every configured provider,
\* whatever the providers called earlier did.
C18_InvokedIsConfigured ==
    /\ InvokedProviders \subseteq ConfiguredProviders
    /\ \A i, j \in DOMAIN called :
          called[i].url = called[j].url => i = j
    /\ Done => InvokedProviders = ConfiguredProviders
    /\ (Done /\ kind = "current") =>
          Len(called) = Cardinality(ConfiguredProviders)

\* the second provider was called after the first one had succeeded
C18_Witness ==
    /\ Done
    /\ kind = "current"
    /\ CurSucceeded("openweathermap")
    /\ called[Len(called)].url = "cur_wa"

\* the aggregation has reached a statement that slices by the day count
Slicing == kind = "forecast" /\ pc \in {"fc_onecall", "fc_merge", "done"}

\* C13: whatever integer day count the forecast aggregation is given, the
\* day count it sends in a provider request and the one it slices provider
\* data with are within 1..MAX_FORECAST_DAYS.
C13_UpstreamDaysInRange ==
    /\ \A i \in DOMAIN called :
          \A j \in DOMAIN called[i].days :
              called[i].days[j] \in 1..MAX_FORECAST_DAYS
    /\ Slicing => ClampDays(days) \in 1..MAX_FORECAST_DAYS

(***************************************************************************)
(* Properties of safe_request (SpecRetry)                                  *)
(***************************************************************************)
\* a failure the retry policy is meant for: a timeout, a connection error
\* or a non-2xx answer of the transient class
IsTransient(o) == o \in {"timeout", "http_5xx"}

\* C10: one safe_request makes at most two attempts, the second only after
\* the first failed transiently and never after a success; a second
\* failure is raised to the caller.
C10_BoundedRetry ==
    /\ attempt = Len(reqlog)
    /\ attempt <= 2
    /\ attempt = 2 => IsTransient(reqlog[1])
    /\ (attempt >= 1 /\ reqlog[1] = "ok") => (attempt = 1 /\ pc = "sr_done")
    /\ (attempt = 2 /\ reqlog[2] # "ok") => (pc = "sr_done" /\ ret.raised)

\* a failure that is not transient: a non-2xx answer outside the transient
\* class or a body that is not JSON
IsNonTransient(o) == o \in {"http_4xx", "bad_json", "value_error"}

\* C11: a first attempt that fails non-transiently ends the request at
\* once: the failure is raised to the caller and no second attempt is made.
C11_NoRetryOnNonTransient ==
    (attempt >= 1 /\ IsNonTransient(reqlog[1])) =>
        (attempt = 1 /\ pc = "sr_done" /\ ret.raised)

(***************************************************************************)
(* Properties of the cached routes (Spec)                                  *)
(***************************************************************************)
\* a thread inside the wrapped function or about to store its result
InFlight(r) == r.pc \in {"computing", "storing"}

\* C1: requests for one key that arrive while its value is being computed
\* share that one computation: no two executions of the aggregation for the
\* same key are in flight together.
C1_SingleFlight ==
    \A r1 \in BagToSet(th) :
        InFlight(r1) =>
            /\ CopiesIn(r1, th) = 1
            /\ \A r2 \in BagToSet(th) :
                  (r2 # r1 /\ InFlight(r2)) => r2.key # r1.key

\* the value stored under key k
Stored(c, k) == c[IndexOf(c, k)].value

\* the threads that a step started
Started == {r \in BagToSet(th') : CopiesIn(r, th') > CopiesIn(r, th)}

\* C2: a request whose key is in the cache and not expired is answered 200
\* with the stored answer, and neither the aggregation nor a provider runs.
C2_CacheHit ==
    [][BagCardinality(th') > BagCardinality(th) =>
          \A r \in Started :
              (r.status # 400 /\ Contains(cache, r.key, now))
              => (/\ r.pc = "done"
                  /\ r.status = 200
                  /\ ~r.computed
                  /\ r.answer = Stored(cache, r.key)
                  /\ nextId' = nextId)]_vars

\* a request was answered from the cache
C2_Witness ==
    \E r \in BagToSet(th) :
        /\ r.pc = "done"
        /\ r.status = 200
        /\ ~r.computed
        /\ r.answer.id >= 1

\* the threads whose aggregation raised in a step
Failed ==
    {r \in BagToSet(th) :
        /\ r.pc = "computing"
        /\ CopiesIn(r, th') < CopiesIn(r, th)
        /\ \E r2 \in BagToSet(th') :
              /\ r2 = [r EXCEPT !.pc = "done", !.status = r2.status]
              /\ CopiesIn(r2, th') > CopiesIn(r2, th)}

\* C3: when the aggregation raises for a key, the cache is left as it was
\* and holds no entry for that key.
C3_FailureNotCached ==
    [][\A r \in Failed :
          cache' = cache /\ ~Contains(cache', r.key, now')]_vars

\* the letters of the request strings in lower case
LowerChar(ch) == IF ch = "L" THEN "l" ELSE IF ch = "O" THEN "o" ELSE ch
Lower(str) == [i \in DOMAIN str |-> LowerChar(str[i])]

\* the normalized query of a call: the location without surrounding blanks
\* and in one case, the day count as it is
NormalizedQuery(args) ==
    [i \in DOMAIN args |->
        IF i = 1 THEN Lower(LStrip(RStrip(args[1]))) ELSE args[i]]

\* the cache serves an unexpired answer built for a query equal to q after
\* normalization
ServesQuery(q) ==
    \E i \in DOMAIN cache :
        /\ now < cache[i].expires
        /\ NormalizedQuery(cache[i].value.by.args) = NormalizedQuery(q)

\* C15: a request is served from the cache exactly when an unexpired entry
\* was stored for a query with the same normalized fields, the location
\* compared without regard to case and surrounding blanks.
C15_KeyIdentity ==
    [][BagCardinality(th') > BagCardinality(th) =>
          \A r \in Started :
              r.status # 400 =>
                  ((r.pc = "done" /\ ~r.computed) <=> ServesQuery(r.args))]_vars

\* the threads whose answer a step stores
Storing ==
    {r \in BagToSet(th) :
        r.pc = "storing" /\ CopiesIn(r, th') < CopiesIn(r, th)}

\* C16: an entry is written with the expiry time now + TTL; a lookup serves
\* it only while now is before that time, and a lookup at or after it
\* starts a fresh aggregation, the entry being stored still or not.
C16_TTLExpiry ==
    [][/\ \A r \in Started :
              (BagCardinality(th') > BagCardinality(th) /\ r.status # 400) =>
                  LET i == IndexOf(cache, r.key)
                  IN  /\ (r.pc = "done" /\ ~r.computed) =>
                             /\ i # 0
                             /\ now < cache[i].expires
                             /\ r.answer = cache[i].value
                      /\ (i # 0 /\ ~(now < cache[i].expires)) =>
                             (r.pc = "computing" /\ r.answer = NoAnswer)
       /\ \A r \in Storing :
              LET j == IndexOf(cache', r.key)
              IN  /\ j # 0
                  /\ cache'[j].value = r.answer
                  /\ cache'[j].expires = now + CACHE_TTL_SECONDS
                  /\ \A i \in DOMAIN cache' :
                        cache'[i].key = r.key => i = j]_vars

\* a request found the entry of its key expired but still stored, and runs
\* the aggregation again
C16_Witness ==
    \E r \in BagToSet(th) :
        /\ r.pc = "computing"
        /\ \E i \in DOMAIN cache :
              cache[i].key = r.key /\ cache[i].expires <= now

\* C19: an answer a route returns was built by that route's own wrapped
\* function for the very arguments of the request: a current-weather
\* request never gets a forecast entry, a forecast request never gets a
\* current-weather entry or a forecast for another day count.
C19_NoCrossReturn ==
    \A r \in BagToSet(th) :
        (r.pc = "done" /\ r.status = 200) =>
            r.answer.by = [route |-> r.route, args |-> r.args]

\* the cache holds a current-weather entry and a forecast entry for one
\* city, and a request was served from one of them
C19_Witness ==
    /\ \E i, j \in DOMAIN cache :
          /\ cache[i].value.by.route = "current"
          /\ cache[j].value.by.route = "forecast"
          /\ cache[i].value.by.args[1] = cache[j].value.by.args[1]
    /\ \E r \in BagToSet(th) :
          r.pc = "done" /\ r.status = 200 /\ ~r.computed

\* a location that is empty once surrounding blanks are removed
BlankOnly(str) == \A i \in DOMAIN str : str[i] = " "

\* the text between the surrounding blanks, and what follows its sign
Trimmed(text) == LStrip(RStrip(text))
Unsigned(text) ==
    LET t == Trimmed(text)
    IN  IF t # <<>> /\ Head(t) \in {"-", "+"} THEN Tail(t) ELSE t

\* the text of an integer, and the integer it denotes
IsIntegerText(text) ==
    /\ Unsigned(text) # <<>>
    /\ \A i \in DOMAIN Unsigned(text) :
          Unsigned(text)[i] \in {"0", "1", "2", "3", "4", "5", "6", "7", "8", "9"}
IntegerOf(text) ==
    IF Head(Trimmed(text)) = "-" THEN 0 - DigitsVal(Unsigned(text), 0)
    ELSE DigitsVal(Unsigned(text), 0)

\* a days parameter that is given and is not an integer of
\* 1..MAX_FORECAST_DAYS
InvalidDays(text) ==
    /\ text # <<>>
    /\ \/ ~IsIntegerText(text)
       \/ IntegerOf(text) <= 0
       \/ IntegerOf(text) > MAX_FORECAST_DAYS

\* C20: a request with a blank location, or a forecast request whose day
\* count is no integer, is <= 0 or is > MAX_FORECAST_DAYS, is answered 400,
\* and the step that rejects a request starts no computation, calls no
\* provider and leaves the cache as it was.
C20_InvalidRejected ==
    [][/\ \A raw \in CurrentRequests :
              BlankOnly(raw) => CurrentValidation(raw).status = 400
       /\ \A rq \in ForecastRequests :
              (BlankOnly(rq[1]) \/ InvalidDays(rq[2])) =>
                  ForecastValidation(rq).status = 400
       /\ \A r \in Started :
              (BagCardinality(th') > BagCardinality(th) /\ r.status = 400) =>
                  /\ r.pc = "done"
                  /\ ~r.computed
                  /\ r.answer = NoAnswer
                  /\ cache' = cache
                  /\ nextId' = nextId
                  /\ called' = called]_vars

\* a request was rejected while the cache held an entry
C20_Witness ==
    /\ cache # <<>>
    /\ \E r \in BagToSet(th) : r.status = 400

====
